---- MODULE Spec2Model ----
(***************************************************************************)
(* Model of the Alphas User Management API: the users table held by       *)
(* SQLAlchemyUserRepository, the UserService on top of it and the HTTP    *)
(* endpoints of app/api/routes.py with the exception handlers of          *)
(* app/main.py.  Every handler is an `async def` without an await around  *)
(* the service call, so one request is one atomic step.                   *)
(***************************************************************************)
EXTENDS Integers, Sequences, FiniteSets, TLC

(* ------------------------------ bounds --------------------------------- *)

\* largest integer the storage engine binds to an INTEGER parameter; stands
\* for the 64-bit limit of the engine, scaled down
IntegerMax == 20

(* --------------------------- program values ---------------------------- *)

\* Optional[...] values: None is the empty tuple, a present value a 1-tuple
None == << >>

Some(x) == << x >>

\* characters str.strip() removes
Whitespace == {" ", "\t"}

\* the names requests carry: empty, blank, plain and padded
Names == {<< >>, <<" ">>, <<" ", "\t">>, <<"a">>, <<" ", "a", " ">>}

\* local parts and domains of the addresses requests carry; the empty
\* domain is an address without a domain, which EmailStr rejects
Locals == {"a", "c"}

RawEmails == {[local |-> "a", domain |-> "b.com"], [local |-> "a", domain |-> "B.COM"],
              [local |-> "c", domain |-> "b.com"], [local |-> "c", domain |-> ""]}

\* UserStatus and the strings it is stored and answered as
UserStatus == {"ACTIVE", "INACTIVE"}

StatusValue(s) == IF s = "ACTIVE" THEN "active" ELSE "inactive"

UserStatusOf(v) == IF v = "active" THEN "ACTIVE" ELSE "INACTIVE"

\* the status a request body may carry; "omitted" is an absent field
StatusInputs == {"active", "inactive", "omitted"}

\* settings.MIN_USER_AGE
MIN_USER_AGE == 18

\* ages requests carry: below the minimum, the minimum, and one the engine
\* cannot bind
Ages == {MIN_USER_AGE - 1, MIN_USER_AGE, IntegerMax + 1}

\* ids a lookup asks for: the ids the table can hold, one more, zero, and
\* one the engine cannot bind
LookupIds == (0..(Cardinality(Locals) + 1)) \cup {IntegerMax + 1}

(* ------------------------------ EmailStr ------------------------------- *)

LowerDomain(d) == IF d = "B.COM" THEN "b.com" ELSE d

\* EmailStr accepts an address with a domain and yields its normalised
\* form: the domain in lower case, the local part as given
EmailStrValid(e) == e.domain # ""

EmailStrValue(e) == [local |-> e.local, domain |-> LowerDomain(e.domain)]

(* ----------------------------- str.strip ------------------------------- *)

RECURSIVE LStrip(_)
LStrip(s) ==
    IF s = << >> THEN s
    ELSE IF Head(s) \in Whitespace THEN LStrip(Tail(s))
    ELSE s

RECURSIVE RStrip(_)
RStrip(s) ==
    IF s = << >> THEN s
    ELSE IF s[Len(s)] \in Whitespace THEN RStrip(SubSeq(s, 1, Len(s) - 1))
    ELSE s

Strip(s) == RStrip(LStrip(s))

(* --------------------------- storage engine ---------------------------- *)

\* rows: the users table, in insertion order
\* last: what the last handled request left behind
\* settings: the Settings instance of app.core.config
\* userService: whether routes._user_service has been set
\* created: how many creates have been answered 201 so far
\* phase, cur: where the request being handled stands, and the request
\* pc, reqs, res: two create calls running side by side on the one
\*     connection: where each stands, its body, its answer
VARIABLES rows, last, settings, userService, created, phase, cur, pc, reqs, res

vars == << rows, last, settings, userService, created, phase, cur, pc, reqs, res >>

wiring == << settings, userService >>

request == << phase, cur >>

workers == << pc, reqs, res >>

\* the engine raises when an integer parameter does not fit an INTEGER
Bindable(n) == n <= IntegerMax /\ n >= -IntegerMax - 1

RECURSIVE MaxId(_)
MaxId(rs) ==
    IF rs = << >> THEN 0
    ELSE LET m == MaxId(Tail(rs)) IN IF Head(rs).id > m THEN Head(rs).id ELSE m

\* faulty variant: hands out the largest id again
NextRowIdReuse(rs) == IF rs = << >> THEN 1 ELSE MaxId(rs)

\* INTEGER PRIMARY KEY of the users table: one more than the largest id
NextRowId(rs) == MaxId(rs) + 1

\* faulty variant: WHERE id >= :id
SelectByIdAtLeast(rs, id) == SelectSeq(rs, LAMBDA r : r.id >= id)

\* SELECT ... WHERE id = :id, fetchone()
SelectById(rs, id) == SelectSeq(rs, LAMBDA r : r.id = id)

\* SELECT ... WHERE email = :email
SelectByEmail(rs, email) == SelectSeq(rs, LAMBDA r : r.email = email)

\* the messages of the engine's errors, as sequences of text pieces
IntTooLarge == << "Python int too large to convert to SQLite INTEGER" >>

UniqueFailed == << "UNIQUE constraint failed: users.email" >>

\* faulty variant: the email column is not declared unique
InsertRowNoUnique(rs, values) ==
    IF ~Bindable(values.age)
    THEN [ok |-> FALSE, rows |-> rs, id |-> None, msg |-> IntTooLarge]
    ELSE LET nid == NextRowId(rs) IN
         [ok |-> TRUE, msg |-> << >>,
          rows |-> Append(rs, [id |-> nid, email |-> values.email,
                               name |-> values.name, status |-> values.status,
                               age |-> values.age]),
          id |-> Some(nid)]

\* INSERT INTO users: raises on a parameter it cannot bind and on a
\* violated UNIQUE(email); otherwise appends the row under a fresh id
InsertRow(rs, values) ==
    IF ~Bindable(values.age)
    THEN [ok |-> FALSE, rows |-> rs, id |-> None, msg |-> IntTooLarge]
    ELSE IF SelectByEmail(rs, values.email) # << >>
    THEN [ok |-> FALSE, rows |-> rs, id |-> None, msg |-> UniqueFailed]
    ELSE LET nid == NextRowId(rs) IN
         [ok |-> TRUE, msg |-> << >>,
          rows |-> Append(rs, [id |-> nid, email |-> values.email,
                               name |-> values.name, status |-> values.status,
                               age |-> values.age]),
          id |-> Some(nid)]

(* ----------------------------- exceptions ----------------------------- *)

\* AppBaseException(message).message
AppBaseMessage(m) == << "Alphas Error: " >> \o m

\* the message of the four subclasses: each puts the prefix once more
KindMessage(m) == AppBaseMessage(<< "Alphas Error: " >> \o m)

(* ----------------------------- Repository ----------------------------- *)

\* a User object; id is Optional[int], status a UserStatus member
MkUser(id, email, name, status, age) ==
    [id |-> id, email |-> email, name |-> name, status |-> status, age |-> age]

\* faulty variant: the status column is not passed on, the User takes its
\* default
RowToUserDefaultStatus(r) ==
    MkUser(Some(r.id), EmailStrValue(r.email), r.name, "ACTIVE", r.age)

\* the User built from a fetched row: User(id=row[0], email=row[1],
\* name=row[2], status=UserStatus(row[3]), age=row[4])
RowToUser(r) ==
    MkUser(Some(r.id), EmailStrValue(r.email), r.name, UserStatusOf(r.status), r.age)

\* faulty variant: count > 1
RepoEmailExistsOffByOne(rs, email) == Len(SelectByEmail(rs, email)) > 1

\* SQLAlchemyUserRepository.email_exists: SELECT COUNT(*) ... > 0
RepoEmailExists(rs, email) == Len(SelectByEmail(rs, email)) > 0

\* faulty variant: the bound one too low
AgeBelowMinimumOffByOne(user) == user.age < 17

\* save, "Validar edad": user.age < 18
AgeBelowMinimum(user) == user.age < 18

\* faulty variant: the name is not stripped before the test
NameBlankNoStrip(user) == user.name = << >>

\* save, "Validar nombre": not user.name or not user.name.strip()
NameBlank(user) == user.name = << >> \/ Strip(user.name) = << >>

\* faulty variant: no email check, and a table without UNIQUE(email)
RepoSaveUnchecked(rs, user) ==
    IF AgeBelowMinimum(user)
    THEN [err |-> "InvalidAge", cause |-> "validation", rows |-> rs, user |-> None,
          msg |-> KindMessage(<< "La edad debe ser mayor o igual a 18 anos" >>)]
    ELSE IF NameBlank(user)
    THEN [err |-> "InvalidUserName", cause |-> "validation", rows |-> rs, user |-> None,
          msg |-> KindMessage(<< "El nombre no puede estar vacio o en blanco" >>)]
    ELSE IF ~Bindable(user.age)
    THEN [err |-> "UserNotFound", cause |-> "engine", rows |-> rs, user |-> None,
          msg |-> KindMessage(<< "Error al guardar usuario: " >> \o IntTooLarge)]
    ELSE LET nid == NextRowId(rs) IN
         [err |-> "none", cause |-> "none", msg |-> << >>,
          rows |-> Append(rs, [id |-> nid, email |-> user.email, name |-> user.name,
                               status |-> StatusValue(user.status), age |-> user.age]),
          user |-> Some([user EXCEPT !.id = Some(nid)])]

\* faulty variant: the row is inserted before the age is looked at
RepoSaveLateAgeCheck(rs, user) ==
    LET ins == InsertRow(rs, [email |-> user.email, name |-> user.name,
                              status |-> StatusValue(user.status),
                              age |-> user.age])
    IN
    IF AgeBelowMinimum(user)
    THEN [err |-> "InvalidAge", cause |-> "validation", rows |-> ins.rows,
          user |-> None,
          msg |-> KindMessage(<< "La edad debe ser mayor o igual a 18 anos" >>)]
    ELSE IF NameBlank(user)
    THEN [err |-> "InvalidUserName", cause |-> "validation", rows |-> rs, user |-> None,
          msg |-> KindMessage(<< "El nombre no puede estar vacio o en blanco" >>)]
    ELSE IF RepoEmailExists(rs, user.email)
    THEN [err |-> "DuplicateEmail", cause |-> "validation", rows |-> rs, user |-> None,
          msg |-> KindMessage(<< "El email ya existe en la base de datos" >>)]
    ELSE IF ~ins.ok
    THEN [err |-> "UserNotFound", cause |-> "engine", rows |-> ins.rows,
          user |-> None,
          msg |-> KindMessage(<< "Error al guardar usuario: " >> \o ins.msg)]
    ELSE [err |-> "none", cause |-> "none", rows |-> ins.rows,
          user |-> Some([user EXCEPT !.id = ins.id]), msg |-> << >>]

\* faulty variant: the email check comes first
RepoSaveEmailFirst(rs, user) ==
    IF RepoEmailExists(rs, user.email)
    THEN [err |-> "DuplicateEmail", cause |-> "validation", rows |-> rs, user |-> None,
          msg |-> KindMessage(<< "El email ya existe en la base de datos" >>)]
    ELSE IF AgeBelowMinimum(user)
    THEN [err |-> "InvalidAge", cause |-> "validation", rows |-> rs, user |-> None,
          msg |-> KindMessage(<< "La edad debe ser mayor o igual a 18 anos" >>)]
    ELSE IF NameBlank(user)
    THEN [err |-> "InvalidUserName", cause |-> "validation", rows |-> rs, user |-> None,
          msg |-> KindMessage(<< "El nombre no puede estar vacio o en blanco" >>)]
    ELSE LET ins == InsertRow(rs, [email |-> user.email, name |-> user.name,
                                   status |-> StatusValue(user.status),
                                   age |-> user.age])
         IN  IF ~ins.ok
             THEN [err |-> "UserNotFound", cause |-> "engine", rows |-> ins.rows,
                   user |-> None,
                   msg |-> KindMessage(<< "Error al guardar usuario: " >> \o ins.msg)]
             ELSE [err |-> "none", cause |-> "none", rows |-> ins.rows,
                   user |-> Some([user EXCEPT !.id = ins.id]), msg |-> << >>]

\* SQLAlchemyUserRepository.save: the checks in the order of the code, then
\* the INSERT; a failure of the INSERT leaves as UserNotFoundException
RepoSave(rs, user) ==
    IF AgeBelowMinimum(user)
    THEN [err |-> "InvalidAge", cause |-> "validation", rows |-> rs, user |-> None,
          msg |-> KindMessage(<< "La edad debe ser mayor o igual a 18 anos" >>)]
    ELSE IF NameBlank(user)
    THEN [err |-> "InvalidUserName", cause |-> "validation", rows |-> rs, user |-> None,
          msg |-> KindMessage(<< "El nombre no puede estar vacio o en blanco" >>)]
    ELSE IF RepoEmailExists(rs, user.email)
    THEN [err |-> "DuplicateEmail", cause |-> "validation", rows |-> rs, user |-> None,
          msg |-> KindMessage(<< "El email ya existe en la base de datos" >>)]
    ELSE LET ins == InsertRow(rs, [email |-> user.email, name |-> user.name,
                                   status |-> StatusValue(user.status),
                                   age |-> user.age])
         IN  IF ~ins.ok
             THEN [err |-> "UserNotFound", cause |-> "engine", rows |-> ins.rows,
                   user |-> None,
                   msg |-> KindMessage(<< "Error al guardar usuario: " >> \o ins.msg)]
             ELSE [err |-> "none", cause |-> "none", rows |-> ins.rows,
                   user |-> Some([user EXCEPT !.id = ins.id]), msg |-> << >>]

\* SQLAlchemyUserRepository.find_by_id: the user of the row, or
\* UserNotFoundException for a missing row and for any failure of the SELECT
RepoFindById(rs, id) ==
    IF ~Bindable(id)
    THEN [err |-> "UserNotFound", cause |-> "engine", user |-> None,
          msg |-> KindMessage(<< "Error al buscar usuario: " >> \o IntTooLarge)]
    ELSE LET sel == SelectById(rs, id) IN
         IF sel # << >>
         THEN [err |-> "none", cause |-> "none", user |-> Some(RowToUser(sel[1])),
               msg |-> << >>]
         ELSE [err |-> "UserNotFound", cause |-> "missing", user |-> None,
               msg |-> KindMessage(<< "Usuario con ID '", ToString(id),
                                      "' no encontrado" >>)]

\* User.dict(): the fields as they are, status still the enum member
UserDict(u) == [id |-> u.id, email |-> u.email, name |-> u.name,
                status |-> u.status, age |-> u.age]

\* str(e) of the UserNotFoundException raised for a missing email, the
\* value of the 'error' entry
NoSuchEmail(email) ==
    KindMessage(<< "Usuario con email '", email.local, "@", email.domain,
                   "' no existe" >>)

\* faulty variant: the SELECT has no WHERE clause
RepoGetUserByEmailAnyRow(rs, email) ==
    IF rs # << >>
    THEN [error |-> FALSE, cause |-> "none", dict |-> Some(UserDict(RowToUser(rs[1]))),
          msg |-> << >>]
    ELSE [error |-> TRUE, cause |-> "missing", dict |-> None,
          msg |-> NoSuchEmail(email)]

\* SQLAlchemyUserRepository.get_user_by_email: never raises; a missing row
\* comes back as a dict with an 'error' entry
RepoGetUserByEmail(rs, email) ==
    LET sel == SelectByEmail(rs, email) IN
    IF sel # << >>
    THEN [error |-> FALSE, cause |-> "none", dict |-> Some(UserDict(RowToUser(sel[1]))),
          msg |-> << >>]
    ELSE [error |-> TRUE, cause |-> "missing", dict |-> None,
          msg |-> NoSuchEmail(email)]

(* ------------------------------ UserService --------------------------- *)

ValidationKinds == {"InvalidAge", "InvalidUserName", "DuplicateEmail"}

\* the message of the ValidationError of User(email=...)
NotAnEmail == << "value is not a valid email address" >>

\* faulty variant: whatever the repository raised is raised again
SvcCreateUserPassThrough(rs, email, name, age, status) ==
    IF ~EmailStrValid(email)
    THEN [err |-> "AppBase", repoErr |-> "none", cause |-> "model", rows |-> rs,
          user |-> None,
          msg |-> AppBaseMessage(<< "Error al crear usuario: " >> \o NotAnEmail)]
    ELSE LET r == RepoSave(rs, MkUser(None, EmailStrValue(email), name, status, age))
         IN  [err |-> r.err, repoErr |-> r.err, cause |-> r.cause,
              rows |-> r.rows, user |-> r.user, msg |-> r.msg]

\* UserService.create_user: builds the User (EmailStr validates and
\* normalises the address), saves it; the three validation errors pass,
\* anything else leaves as AppBaseException
SvcCreateUser(rs, email, name, age, status) ==
    IF ~EmailStrValid(email)
    THEN [err |-> "AppBase", repoErr |-> "none", cause |-> "model", rows |-> rs,
          user |-> None,
          msg |-> AppBaseMessage(<< "Error al crear usuario: " >> \o NotAnEmail)]
    ELSE LET r == RepoSave(rs, MkUser(None, EmailStrValue(email), name, status, age))
         IN  IF r.err \in ValidationKinds \cup {"none"}
             THEN [err |-> r.err, repoErr |-> r.err, cause |-> r.cause,
                   rows |-> r.rows, user |-> r.user, msg |-> r.msg]
             ELSE [err |-> "AppBase", repoErr |-> r.err, cause |-> r.cause,
                   rows |-> r.rows, user |-> r.user,
                   msg |-> AppBaseMessage(<< "Error al crear usuario: " >> \o r.msg)]

\* UserService.get_user_by_id: UserNotFoundException passes unchanged
SvcGetUserById(rs, id) ==
    LET r == RepoFindById(rs, id) IN
    [err |-> r.err, repoErr |-> r.err, cause |-> r.cause, user |-> r.user,
     msg |-> r.msg]

\* faulty variant: the 'error' entry is raised as the generic error
SvcGetUserByEmailGeneric(rs, email) ==
    LET r == RepoGetUserByEmail(rs, email) IN
    [err |-> IF r.error THEN "AppBase" ELSE "none", repoErr |-> "none",
     cause |-> r.cause, dict |-> r.dict,
     msg |-> IF r.error THEN AppBaseMessage(r.msg) ELSE << >>]

\* UserService.get_user_by_email: an 'error' entry becomes UserNotFoundException
SvcGetUserByEmail(rs, email) ==
    LET r == RepoGetUserByEmail(rs, email) IN
    [err |-> IF r.error THEN "UserNotFound" ELSE "none", repoErr |-> "none",
     cause |-> r.cause, dict |-> r.dict,
     msg |-> IF r.error THEN KindMessage(r.msg) ELSE << >>]

\* UserService.email_exists: the repository's boolean
SvcEmailExists(rs, email) == RepoEmailExists(rs, email)

\* faulty variant: the new status is written to the row
SvcUpdateUserStatusWriteThrough(rs, id, newStatus) ==
    LET g == SvcGetUserById(rs, id) IN
    IF g.err # "none"
    THEN [err |-> g.err, repoErr |-> g.repoErr, cause |-> g.cause, rows |-> rs,
          user |-> None, msg |-> g.msg]
    ELSE [err |-> "none", repoErr |-> "none", cause |-> "none",
          rows |-> [i \in 1..Len(rs) |->
                       IF rs[i].id = id
                       THEN [rs[i] EXCEPT !.status = StatusValue(newStatus)]
                       ELSE rs[i]],
          user |-> Some([g.user[1] EXCEPT !.status = newStatus]), msg |-> << >>]

\* UserService.update_user_status: sets the status of the fetched object
\* and returns it; nothing is written back
SvcUpdateUserStatus(rs, id, newStatus) ==
    LET g == SvcGetUserById(rs, id) IN
    IF g.err # "none"
    THEN [err |-> g.err, repoErr |-> g.repoErr, cause |-> g.cause, rows |-> rs,
          user |-> None, msg |-> g.msg]
    ELSE [err |-> "none", repoErr |-> "none", cause |-> "none", rows |-> rs,
          user |-> Some([g.user[1] EXCEPT !.status = newStatus]), msg |-> << >>]

(* ------------------------- exception handlers -------------------------- *)

\* the handler registered for the class of the exception, the closest in
\* its MRO first; what no handler takes is the framework's plain 500
HandlerStatus(kind) ==
    CASE kind = "UserNotFound" -> 404
      [] kind = "DuplicateEmail" -> 409
      [] kind = "InvalidAge" -> 400
      [] kind = "InvalidUserName" -> 400
      [] kind = "AppBase" -> 500
      [] OTHER -> 500

HandlerError(kind) ==
    CASE kind = "UserNotFound" -> "Usuario no encontrado"
      [] kind = "DuplicateEmail" -> "Email duplicado"
      [] kind = "InvalidAge" -> "Edad invalida"
      [] kind = "InvalidUserName" -> "Nombre de usuario invalido"
      [] kind = "AppBase" -> "Error en la aplicacion"
      [] OTHER -> "Internal Server Error"

(* ------------------------------ API layer ----------------------------- *)

\* fillers of the request fields an endpoint does not take
NoEmail == [local |-> "", domain |-> ""]

NoRequest == [email |-> NoEmail, name |-> << >>, age |-> 0, status |-> "omitted",
              id |-> 0]

\* UserResponse(id, email, name, age, status)
UserResponse(id, email, name, age, status) ==
    [id |-> id, email |-> EmailStrValue(email), name |-> name, age |-> age,
     status |-> status]

\* what one handled request leaves behind: its input, how far it got, the
\* error raised by the repository and by the service, and the answer
Outcome(op, req, parsed, delegated, args, repoErr, svcErr, cause, code, error, user, check) ==
    [op |-> op, email |-> req.email, name |-> req.name, age |-> req.age,
     status |-> req.status, id |-> req.id, parsed |-> parsed,
     delegated |-> delegated, args |-> args, repoErr |-> repoErr,
     svcErr |-> svcErr, cause |-> cause, code |-> code, error |-> error,
     user |-> user, check |-> check, detail |-> << >>]

\* a raised exception answered by its handler: the body is
\* {"error": <category>, "detail": exc.message}
Faulted(op, req, args, repoErr, svcErr, cause, msg) ==
    [Outcome(op, req, TRUE, TRUE, args, repoErr, svcErr, cause,
             HandlerStatus(svcErr), HandlerError(svcErr), None, None)
     EXCEPT !.detail = msg]

\* POST /users: the body is validated against UserCreateRequest (422 when it
\* fails), then create_user is called with the validated fields
ApiCreateUser(rs, body) ==
    LET req == [NoRequest EXCEPT !.email = body.email, !.name = body.name,
                                 !.age = body.age, !.status = body.status]
    IN
    IF ~EmailStrValid(body.email)
    THEN [rows |-> rs,
          last |-> Outcome("create_user", req, FALSE, FALSE, None, "none", "none",
                           "none", 422, "RequestValidationError", None, None)]
    ELSE LET data == [email |-> EmailStrValue(body.email), name |-> body.name,
                      age |-> body.age,
                      status |-> IF body.status = "omitted" THEN "ACTIVE"
                                 ELSE UserStatusOf(body.status)]
             s == SvcCreateUser(rs, data.email, data.name, data.age, data.status)
         IN  IF s.err # "none"
             THEN [rows |-> s.rows,
                   last |-> Faulted("create_user", req, Some(data), s.repoErr, s.err,
                                    s.cause, s.msg)]
             ELSE LET u == s.user[1] IN
                  [rows |-> s.rows,
                   last |-> Outcome("create_user", req, TRUE, TRUE, Some(data), "none",
                                    "none", "none", 201, "",
                                    Some(UserResponse(u.id, u.email, u.name, u.age,
                                                      StatusValue(u.status))),
                                    None)]

\* GET /users/{user_id}
ApiGetUser(rs, id) ==
    LET req == [NoRequest EXCEPT !.id = id]
        s == SvcGetUserById(rs, id)
    IN  IF s.err # "none"
        THEN Faulted("get_user", req, None, s.repoErr, s.err, s.cause, s.msg)
        ELSE LET u == s.user[1] IN
             Outcome("get_user", req, TRUE, TRUE, None, "none", "none", "none", 200,
                     "", Some(UserResponse(u.id, u.email, u.name, u.age,
                                           StatusValue(u.status))), None)

\* GET /users/email/{email}: the path parameter is a plain str
ApiGetUserByEmail(rs, email) ==
    LET req == [NoRequest EXCEPT !.email = email]
        s == SvcGetUserByEmail(rs, email)
    IN  IF s.err # "none"
        THEN Faulted("get_user_by_email", req, None, s.repoErr, s.err, s.cause, s.msg)
        ELSE LET d == s.dict[1] IN
             Outcome("get_user_by_email", req, TRUE, TRUE, None, "none", "none",
                     "none", 200, "",
                     Some(UserResponse(d.id, d.email, d.name, d.age,
                                       StatusValue(d.status))), None)

\* faulty variant: available is not negated
ApiCheckEmailExistsNotNegated(rs, email) ==
    LET req == [NoRequest EXCEPT !.email = email]
        exists == SvcEmailExists(rs, email)
    IN  Outcome("check_email_exists", req, TRUE, TRUE, None, "none", "none", "none",
                200, "", None,
                Some([email |-> email, exists |-> exists, available |-> exists]))

\* GET /users/check-email/{email}
ApiCheckEmailExists(rs, email) ==
    LET req == [NoRequest EXCEPT !.email = email]
        exists == SvcEmailExists(rs, email)
    IN  Outcome("check_email_exists", req, TRUE, TRUE, None, "none", "none", "none",
                200, "", None,
                Some([email |-> email, exists |-> exists, available |-> ~exists]))

(* --------------------------- get_user_service -------------------------- *)

\* get_user_service raises RuntimeError while _user_service is None; no
\* handler is registered for it, so the framework answers its plain 500
NoService(op, req) ==
    Outcome(op, req, TRUE, FALSE, None, "none", "RuntimeError", "none",
            HandlerStatus("RuntimeError"), HandlerError("RuntimeError"), None, None)

\* the endpoints as the router runs them: the body is validated first, then
\* the handler asks for the service, then it calls it
RouteCreateUser(svc, rs, body) ==
    IF EmailStrValid(body.email) /\ ~svc
    THEN [rows |-> rs,
          last |-> NoService("create_user",
                             [NoRequest EXCEPT !.email = body.email,
                                               !.name = body.name, !.age = body.age,
                                               !.status = body.status])]
    ELSE ApiCreateUser(rs, body)

RouteGetUser(svc, rs, id) ==
    IF ~svc THEN NoService("get_user", [NoRequest EXCEPT !.id = id])
    ELSE ApiGetUser(rs, id)

RouteGetUserByEmail(svc, rs, email) ==
    IF ~svc THEN NoService("get_user_by_email", [NoRequest EXCEPT !.email = email])
    ELSE ApiGetUserByEmail(rs, email)

RouteCheckEmailExists(svc, rs, email) ==
    IF ~svc THEN NoService("check_email_exists", [NoRequest EXCEPT !.email = email])
    ELSE ApiCheckEmailExists(rs, email)

(* ------------------------------- actions ------------------------------- *)

\* the Settings instance with its defaults
DefaultSettings == [MIN_USER_AGE |-> MIN_USER_AGE]

\* the two callers of the side-by-side run
Procs == {1, 2}

NoBody == [email |-> NoEmail, name |-> << >>, age |-> 0, status |-> "omitted"]

NoResult == [code |-> 0, err |-> "none", id |-> None]

\* no request is being followed step by step and no call runs side by side
AtRest ==
    /\ created = 0
    /\ phase = "Idle"
    /\ cur = [op |-> "none", req |-> NoRequest]
    /\ pc = [p \in Procs |-> "off"]
    /\ reqs = [p \in Procs |-> NoBody]
    /\ res = [p \in Procs |-> NoResult]

\* the state once app/main.py is imported: empty table, service injected
Init ==
    /\ AtRest
    /\ rows = << >>
    /\ last = Outcome("start", NoRequest, FALSE, FALSE, None, "none", "none", "none",
                      0, "", None, None)
    /\ settings = DefaultSettings
    /\ userService = TRUE

CreateUser ==
    \E e \in RawEmails, n \in Names, a \in Ages, st \in StatusInputs :
        LET r == RouteCreateUser(userService, rows,
                                 [email |-> e, name |-> n, age |-> a, status |-> st])
        IN  /\ rows' = r.rows
            /\ last' = r.last
            /\ created' = IF r.last.code = 201 THEN created + 1 ELSE created
            /\ UNCHANGED << wiring, request, workers >>

GetUser ==
    \E id \in LookupIds :
        /\ last' = RouteGetUser(userService, rows, id)
        /\ UNCHANGED << rows, wiring, created, request, workers >>

GetUserByEmail ==
    \E e \in RawEmails :
        /\ last' = RouteGetUserByEmail(userService, rows, e)
        /\ UNCHANGED << rows, wiring, created, request, workers >>

CheckEmailExists ==
    \E e \in RawEmails :
        /\ last' = RouteCheckEmailExists(userService, rows, e)
        /\ UNCHANGED << rows, wiring, created, request, workers >>

\* UserService.update_user_status has no endpoint; it is called on the
\* service, so there is no HTTP answer (code 0)
UpdateUserStatus ==
    \E id \in LookupIds, st \in UserStatus :
        LET s == SvcUpdateUserStatus(rows, id, st)
            req == [NoRequest EXCEPT !.id = id, !.status = StatusValue(st)]
        IN  /\ userService
            /\ UNCHANGED << wiring, created, request, workers >>
            /\ rows' = s.rows
            /\ last' = [Outcome("update_user_status", req, TRUE, TRUE, None,
                                s.repoErr, s.err, s.cause, 0, "",
                                IF s.err = "none"
                                THEN Some(UserResponse(s.user[1].id, s.user[1].email,
                                                       s.user[1].name, s.user[1].age,
                                                       StatusValue(s.user[1].status)))
                                ELSE None,
                                None)
                         EXCEPT !.detail = s.msg]

\* GET / and GET /health: fixed answers, no service call
Root ==
    /\ last' = Outcome("root", NoRequest, TRUE, FALSE, None, "none", "none", "none",
                       200, "", None, None)
    /\ UNCHANGED << rows, wiring, created, request, workers >>

HealthCheck ==
    /\ last' = Outcome("health_check", NoRequest, TRUE, FALSE, None, "none", "none",
                       "none", 200, "", None, None)
    /\ UNCHANGED << rows, wiring, created, request, workers >>

Next ==
    \/ CreateUser
    \/ GetUser
    \/ GetUserByEmail
    \/ CheckEmailExists
    \/ UpdateUserStatus
    \/ Root
    \/ HealthCheck

Spec == Init /\ [][Next]_vars

(* ----------------------- environment overrides ------------------------- *)

\* values MIN_USER_AGE may be given through the environment or .env: the
\* default and one above it
MinAgeSettings == {MIN_USER_AGE, MIN_USER_AGE + 1}

\* the same program started under any of these settings
InitSettings ==
    /\ AtRest
    /\ rows = << >>
    /\ last = Outcome("start", NoRequest, FALSE, FALSE, None, "none", "none", "none",
                      0, "", None, None)
    /\ settings \in {[MIN_USER_AGE |-> m] : m \in MinAgeSettings}
    /\ userService = TRUE

SpecSettings == InitSettings /\ [][Next]_vars

(* ------------------------ the router on its own ----------------------- *)

\* the state once app/api/routes.py is imported: _user_service is None
InitRouter ==
    /\ AtRest
    /\ rows = << >>
    /\ last = Outcome("start", NoRequest, FALSE, FALSE, None, "none", "none", "none",
                      0, "", None, None)
    /\ settings = DefaultSettings
    /\ userService = FALSE

\* set_user_service(service)
SetUserService ==
    /\ ~userService
    /\ userService' = TRUE
    /\ UNCHANGED << rows, last, settings, created, request, workers >>

NextRouter ==
    \/ SetUserService
    \/ Next

SpecRouter == InitRouter /\ [][NextRouter]_vars

(* ---------------------- one request, step by step ---------------------- *)

\* the names and the status values of the bodies followed step by step:
\* an empty and a proper name, a given and an omitted status
StepNames == {<< >>, << "a" >>}

StepStatus == {"inactive", "omitted"}

\* the requests the router takes
Requests ==
    {[op |-> "create_user",
      req |-> [NoRequest EXCEPT !.email = e, !.name = n, !.age = a, !.status = st]] :
        e \in RawEmails, n \in StepNames, a \in Ages, st \in StepStatus}
    \cup {[op |-> "get_user", req |-> [NoRequest EXCEPT !.id = id]] : id \in LookupIds}
    \cup {[op |-> o, req |-> [NoRequest EXCEPT !.email = e]] :
             o \in {"get_user_by_email", "check_email_exists"}, e \in RawEmails}

\* faulty variant: the body is not validated
SchemaValidAlways(c) == TRUE

\* the validation FastAPI runs before it calls the handler: the body of
\* POST /users against UserCreateRequest; the path parameters are a str or
\* an int of any size
SchemaValid(c) == c.op = "create_user" => EmailStrValid(c.req.email)

\* the handler of the request's route
Dispatch(svc, rs, c) ==
    CASE c.op = "create_user" ->
             RouteCreateUser(svc, rs, [email |-> c.req.email, name |-> c.req.name,
                                       age |-> c.req.age, status |-> c.req.status])
      [] c.op = "get_user" ->
             [rows |-> rs, last |-> RouteGetUser(svc, rs, c.req.id)]
      [] c.op = "get_user_by_email" ->
             [rows |-> rs, last |-> RouteGetUserByEmail(svc, rs, c.req.email)]
      [] OTHER ->
             [rows |-> rs, last |-> RouteCheckEmailExists(svc, rs, c.req.email)]

\* the 422 answer of the framework to a body that fails validation
Unprocessable(c) ==
    Outcome(c.op, c.req, FALSE, FALSE, None, "none", "none", "none", 422,
            "RequestValidationError", None, None)

\* a request arrives once the one before it has been answered
Receive ==
    /\ phase \in {"Idle", "Responded", "Faulted"}
    /\ \E c \in Requests : cur' = c
    /\ phase' = "Received"
    /\ last' = Outcome("start", NoRequest, FALSE, FALSE, None, "none", "none", "none",
                       0, "", None, None)
    /\ UNCHANGED << rows, wiring, created, workers >>

\* schema validation: the handler is entered only with a valid body
Parse ==
    /\ phase = "Received"
    /\ IF SchemaValid(cur)
       THEN /\ phase' = "Parsed"
            /\ UNCHANGED last
       ELSE /\ phase' = "Faulted"
            /\ last' = Unprocessable(cur)
    /\ UNCHANGED << rows, wiring, created, cur, workers >>

\* the handler asks for the service and calls it
Delegate ==
    /\ phase = "Parsed"
    /\ LET d == Dispatch(userService, rows, cur) IN
       /\ phase' = IF d.last.delegated THEN "Delegated" ELSE "Faulted"
       /\ rows' = d.rows
       /\ last' = d.last
       /\ created' = IF d.last.code = 201 THEN created + 1 ELSE created
    /\ UNCHANGED << wiring, cur, workers >>

\* the handler returns its response model, or the exception it re-raised
\* is answered by its exception handler
Respond ==
    /\ phase = "Delegated"
    /\ phase' = IF last.svcErr = "none" THEN "Responded" ELSE "Faulted"
    /\ UNCHANGED << rows, last, wiring, created, cur, workers >>

NextPhases ==
    \/ Receive
    \/ Parse
    \/ Delegate
    \/ Respond

\* a handler that was entered runs to its end: nothing in it waits
SpecPhases ==
    /\ Init
    /\ [][NextPhases]_vars
    /\ WF_vars(Parse)
    /\ WF_vars(Delegate)
    /\ WF_vars(Respond)

(* ------------------ two creates on the one connection ------------------ *)

\* the bodies of the two calls
RaceBodies ==
    {[email |-> e, name |-> n, age |-> a, status |-> st] :
        e \in RawEmails, n \in StepNames, a \in Ages, st \in StepStatus}

\* the stores the two calls may find: empty, or one row of another email
RaceStores ==
    {<< >>,
     << [id |-> 1, email |-> [local |-> "c", domain |-> "b.com"], name |-> << "a" >>,
         status |-> "active", age |-> MIN_USER_AGE] >>}

\* the User that create_user builds from a validated body
RaceUser(b) ==
    MkUser(None, EmailStrValue(b.email), b.name,
           IF b.status = "omitted" THEN "ACTIVE" ELSE UserStatusOf(b.status), b.age)

\* the answer to a call that ended: the status of the handler of the
\* exception that left the service, or 201 with the assigned id
RaceAnswer(repoErr, id) ==
    IF repoErr = "none" THEN [code |-> 201, err |-> "none", id |-> id]
    ELSE LET kind == IF repoErr \in ValidationKinds THEN repoErr ELSE "AppBase"
         IN  [code |-> HandlerStatus(kind), err |-> kind, id |-> None]

InitRace ==
    /\ rows \in RaceStores
    /\ last = Outcome("start", NoRequest, FALSE, FALSE, None, "none", "none", "none",
                      0, "", None, None)
    /\ settings = DefaultSettings
    /\ userService = TRUE
    /\ created = Len(rows)
    /\ phase = "Idle"
    /\ cur = [op |-> "none", req |-> NoRequest]
    /\ pc = [p \in Procs |-> "received"]
    /\ reqs \in [Procs -> RaceBodies]
    /\ res = [p \in Procs |-> NoResult]

\* body validation, then the checks of save that read no row: age, name
RaceValidate(p) ==
    /\ pc[p] = "received"
    /\ IF ~EmailStrValid(reqs[p].email)
       THEN /\ pc' = [pc EXCEPT ![p] = "done"]
            /\ res' = [res EXCEPT ![p] = [code |-> 422, err |-> "RequestValidationError",
                                          id |-> None]]
       ELSE IF AgeBelowMinimum(RaceUser(reqs[p]))
       THEN /\ pc' = [pc EXCEPT ![p] = "done"]
            /\ res' = [res EXCEPT ![p] = RaceAnswer("InvalidAge", None)]
       ELSE IF NameBlank(RaceUser(reqs[p]))
       THEN /\ pc' = [pc EXCEPT ![p] = "done"]
            /\ res' = [res EXCEPT ![p] = RaceAnswer("InvalidUserName", None)]
       ELSE /\ pc' = [pc EXCEPT ![p] = "validated"]
            /\ UNCHANGED res
    /\ UNCHANGED << rows, last, wiring, created, request, reqs >>

\* save, "Validar email duplicado": the SELECT COUNT of email_exists
RaceEmailExists(p) ==
    /\ pc[p] = "validated"
    /\ IF RepoEmailExists(rows, RaceUser(reqs[p]).email)
       THEN /\ pc' = [pc EXCEPT ![p] = "done"]
            /\ res' = [res EXCEPT ![p] = RaceAnswer("DuplicateEmail", None)]
       ELSE /\ pc' = [pc EXCEPT ![p] = "checked"]
            /\ UNCHANGED res
    /\ UNCHANGED << rows, last, wiring, created, request, reqs >>

\* save, "Ejecutar INSERT": a refused INSERT leaves save as
\* UserNotFoundException and the service as AppBaseException
RaceInsert(p) ==
    /\ pc[p] = "checked"
    /\ LET u == RaceUser(reqs[p])
           ins == InsertRow(rows, [email |-> u.email, name |-> u.name,
                                   status |-> StatusValue(u.status), age |-> u.age])
       IN  /\ rows' = ins.rows
           /\ res' = [res EXCEPT ![p] = RaceAnswer(IF ins.ok THEN "none"
                                                   ELSE "UserNotFound", ins.id)]
           /\ created' = IF ins.ok THEN created + 1 ELSE created
    /\ pc' = [pc EXCEPT ![p] = "done"]
    /\ UNCHANGED << last, wiring, request, reqs >>

NextRace ==
    \E p \in Procs :
        \/ RaceValidate(p)
        \/ RaceEmailExists(p)
        \/ RaceInsert(p)

SpecRace == InitRace /\ [][NextRace]_vars

(* ------------------------- properties of the store --------------------- *)

\* a name that is empty or consists only of whitespace
IsBlank(n) == \A i \in 1..Len(n) : n[i] \in Whitespace

\* some stored row carries this email / this id
HasEmail(rs, e) == \E i \in 1..Len(rs) : rs[i].email = e

HasId(rs, id) == \E i \in 1..Len(rs) : rs[i].id = id

\* the request just handled was a create that reached the service
IsCreate(l) == l.op = "create_user" /\ l.delegated

\* C1: in every reachable state the store holds at most one row per email.
C1_OneRowPerEmail ==
    \A i, j \in 1..Len(rows) : rows[i].email = rows[j].email => i = j

\* a full store (one row per address) right after a refused duplicate
C1_Witness ==
    /\ Len(rows) = 2
    /\ last.op = "create_user"
    /\ last.svcErr = "DuplicateEmail"

\* C2: a create whose email a stored row already carries, with a valid name
\* and an age of at least the minimum, fails with DuplicateEmail (409) and
\* leaves every stored row, the first create's included, as it was.
C2_DuplicateRefused ==
    [][ (/\ IsCreate(last')
         /\ HasEmail(rows, last'.args[1].email)
         /\ last'.args[1].age >= MIN_USER_AGE
         /\ ~IsBlank(last'.args[1].name))
        => (/\ last'.svcErr = "DuplicateEmail"
            /\ last'.code = 409
            /\ last'.user = None
            /\ rows' = rows) ]_vars

\* a duplicate was refused although it differs from the stored row in name
\* and status
C2_Witness ==
    /\ IsCreate(last)
    /\ last.svcErr = "DuplicateEmail"
    /\ \E i \in 1..Len(rows) :
          /\ rows[i].email = last.args[1].email
          /\ rows[i].name # last.args[1].name
          /\ rows[i].status # StatusValue(last.args[1].status)

\* C3: a create with an age below the minimum fails with InvalidAge (400);
\* the store is the same before and after, and so is email_exists for the
\* email of the call.
C3_InvalidAgeNoWrite ==
    [][ (IsCreate(last') /\ last'.args[1].age < MIN_USER_AGE)
        => (/\ last'.svcErr = "InvalidAge"
            /\ last'.code = 400
            /\ rows' = rows
            /\ SvcEmailExists(rows', last'.args[1].email)
                 = SvcEmailExists(rows, last'.args[1].email)) ]_vars

\* an under-age create for an address nobody holds was refused
C3_Witness ==
    /\ IsCreate(last)
    /\ last.args[1].age < MIN_USER_AGE
    /\ last.svcErr = "InvalidAge"
    /\ ~HasEmail(rows, last.args[1].email)
    /\ ~IsBlank(last.args[1].name)

\* C4: a create with a blank name and an age of at least the minimum fails
\* with InvalidUserName (400), whether or not the email is stored, and
\* writes no row.
C4_BlankNameRefused ==
    [][ (/\ IsCreate(last')
         /\ IsBlank(last'.args[1].name)
         /\ last'.args[1].age >= MIN_USER_AGE)
        => (/\ last'.svcErr = "InvalidUserName"
            /\ last'.code = 400
            /\ rows' = rows) ]_vars

\* a whitespace-only name was refused for an address that is already stored
C4_Witness ==
    /\ IsCreate(last)
    /\ last.args[1].name # << >>
    /\ IsBlank(last.args[1].name)
    /\ last.svcErr = "InvalidUserName"
    /\ HasEmail(rows, last.args[1].email)


\* C5: save checks age, then name, then email uniqueness and reports the
\* first check that fails: InvalidAge for an age below the minimum whatever
\* the name and the email, InvalidUserName for a blank name with a valid age
\* whatever the email, DuplicateEmail only with a valid age and name.
C5_ValidationOrder ==
    IsCreate(last) =>
        LET a == last.args[1] IN
        /\ a.age < MIN_USER_AGE => last.repoErr = "InvalidAge"
        /\ (a.age >= MIN_USER_AGE /\ IsBlank(a.name)) => last.repoErr = "InvalidUserName"
        /\ last.repoErr = "DuplicateEmail" => (a.age >= MIN_USER_AGE /\ ~IsBlank(a.name))

\* all three checks would fail at once, and InvalidAge was reported
C5_Witness ==
    /\ IsCreate(last)
    /\ last.args[1].age < MIN_USER_AGE
    /\ IsBlank(last.args[1].name)
    /\ HasEmail(rows, last.args[1].email)
    /\ last.repoErr = "InvalidAge"

\* C6: after a successful create the returned user has an id, and get_by_id
\* on that id returns that id with the email, name, age and status passed
\* to create, the status being ACTIVE when the request left it out.
C6_RoundTrip ==
    (IsCreate(last) /\ last.svcErr = "none") =>
        /\ last.user # None
        /\ last.user[1].id # None
        /\ LET a == last.args[1]
               id == last.user[1].id
               g == SvcGetUserById(rows, id[1])
           IN  /\ g.err = "none"
               /\ g.user # None
               /\ g.user[1] = MkUser(id, a.email, a.name, a.status, a.age)
               /\ last.status = "omitted" => g.user[1].status = "ACTIVE"

\* a second user was created as INACTIVE under a padded name
C6_Witness ==
    /\ IsCreate(last)
    /\ last.code = 201
    /\ last.user[1].id = Some(2)
    /\ last.user[1].status = "inactive"
    /\ last.user[1].name = <<" ", "a", " ">>

\* C7: get_by_id on an id that no stored row carries fails with
\* UserNotFound, answered 404; it returns no user and leaves the store as
\* it was.
C7_MissingIdNotFound ==
    [][ (last'.op = "get_user" /\ ~HasId(rows, last'.id))
        => (/\ last'.svcErr = "UserNotFound"
            /\ last'.code = 404
            /\ last'.user = None
            /\ rows' = rows) ]_vars

\* a lookup on the empty store was answered 404
C7_Witness ==
    /\ rows = << >>
    /\ last.op = "get_user"
    /\ last.code = 404

\* C8: the email check answers 200 with exists true exactly when a stored
\* row has the email and available its negation; right after a successful
\* create the check for the created email says exists, not available.
C8_EmailCheck ==
    /\ last.op = "check_email_exists" =>
          /\ last.code = 200
          /\ last.svcErr = "none"
          /\ last.check # None
          /\ last.check[1].exists = HasEmail(rows, last.email)
          /\ last.check[1].available = ~last.check[1].exists
    /\ (IsCreate(last) /\ last.svcErr = "none") =>
          LET c == ApiCheckEmailExists(rows, last.args[1].email) IN
          /\ c.code = 200
          /\ c.check[1].exists
          /\ ~c.check[1].available

\* the check said "available" for an address while another one is stored
C8_Witness ==
    /\ last.op = "check_email_exists"
    /\ Len(rows) = 1
    /\ last.check[1].exists = FALSE
    /\ last.check[1].available = TRUE

\* C9: the first row of an empty store gets id 1, every new row an id
\* greater than all ids assigned before, the answer of the create carries
\* that id, and the id of a stored row never changes.
C9_IdsMonotonic ==
    [][ /\ Len(rows') >= Len(rows)
        /\ \A i \in 1..Len(rows) : rows'[i].id = rows[i].id
        /\ Len(rows') > Len(rows) =>
              /\ Len(rows') = Len(rows) + 1
              /\ \A i \in 1..Len(rows) : rows'[Len(rows')].id > rows[i].id
              /\ rows = << >> => rows'[1].id = 1
              /\ last'.user = Some(UserResponse(Some(rows'[Len(rows')].id),
                                                rows'[Len(rows')].email,
                                                rows'[Len(rows')].name,
                                                rows'[Len(rows')].age,
                                                rows'[Len(rows')].status)) ]_vars

\* two creates succeeded and got the ids 1 and 2
C9_Witness ==
    /\ Len(rows) = 2
    /\ rows[1].id = 1
    /\ rows[2].id = 2
    /\ last.op = "create_user"
    /\ last.user # None
    /\ last.user[1].id = Some(2)

\* the status the error table gives each kind
ClaimedStatus(kind) ==
    CASE kind = "InvalidAge" -> 400
      [] kind = "InvalidUserName" -> 400
      [] kind = "DuplicateEmail" -> 409
      [] kind = "UserNotFound" -> 404
      [] OTHER -> 500

\* C10: an error kind raised by the repository is the kind the service
\* raises, and the HTTP answer carries the status fixed for that kind.
C10_KindsPassUnchanged ==
    last.repoErr # "none" =>
        /\ last.svcErr = last.repoErr
        /\ last.code # 0 => last.code = ClaimedStatus(last.repoErr)

\* C11: GET /users/email/{email} answers 200 with the id, email, name, age
\* and status of the stored row that has the email, and fails with
\* UserNotFound, answered 404, when no row has it.
C11_GetByEmail ==
    last.op = "get_user_by_email" =>
        /\ \A i \in 1..Len(rows) :
              rows[i].email = last.email =>
                  /\ last.code = 200
                  /\ last.user = Some([id |-> Some(rows[i].id), email |-> rows[i].email,
                                       name |-> rows[i].name, age |-> rows[i].age,
                                       status |-> rows[i].status])
        /\ ~HasEmail(rows, last.email) =>
              /\ last.svcErr = "UserNotFound"
              /\ last.code = 404
              /\ last.user = None

\* the second of two rows, an INACTIVE user, was fetched by its email
C11_Witness ==
    /\ last.op = "get_user_by_email"
    /\ last.code = 200
    /\ Len(rows) = 2
    /\ last.user[1].id = Some(2)
    /\ last.user[1].status = "inactive"

\* C12: every stored row has an age of at least the configured minimum,
\* whatever value MIN_USER_AGE is configured to.
C12_AgeAtLeastConfigured ==
    \A i \in 1..Len(rows) : rows[i].age >= settings.MIN_USER_AGE

\* C13: update_status on the id of a stored row returns the user with the
\* new status and leaves the table as it was, so a get_by_id after it
\* still returns the status the row had before; on an id without a row it
\* fails with UserNotFound.
C13_UpdateNotPersisted ==
    [][ last'.op = "update_user_status" =>
          /\ rows' = rows
          /\ \A i \in 1..Len(rows) :
                rows[i].id = last'.id =>
                    /\ last'.svcErr = "none"
                    /\ last'.user # None
                    /\ last'.user[1].id = Some(rows[i].id)
                    /\ last'.user[1].status = last'.status
                    /\ SvcGetUserById(rows', last'.id).user[1].status
                         = UserStatusOf(rows[i].status)
          /\ ~HasId(rows, last'.id) =>
                /\ last'.svcErr = "UserNotFound"
                /\ last'.user = None ]_vars

\* an update returned a status that differs from the stored one
C13_Witness ==
    /\ last.op = "update_user_status"
    /\ last.svcErr = "none"
    /\ \E i \in 1..Len(rows) :
          /\ Some(rows[i].id) = last.user[1].id
          /\ rows[i].status # last.user[1].status

\* the error kinds a handler is registered for
KnownKinds == ValidationKinds \cup {"UserNotFound", "AppBase"}

\* the answer has the shape {error, detail} of the registered handlers
UniformErrorBody(l) == l.error \in {HandlerError(k) : k \in KnownKinds}

C15_LookupFailureIsGeneric ==
    last.op = "get_user" =>
        /\ last.svcErr = "UserNotFound" => last.cause = "missing"
        /\ last.cause = "engine" =>
              /\ last.svcErr = "AppBase"
              /\ last.code = 500

\* s ends t
IsSuffix(s, t) == Len(s) <= Len(t) /\ SubSeq(t, Len(t) - Len(s) + 1, Len(t)) = s

\* the message the engine gives when it refuses the INSERT of the arguments
InsertFailure(rs, a) ==
    InsertRow(rs, [email |-> a.email, name |-> a.name,
                   status |-> StatusValue(a.status), age |-> a.age]).msg

\* C16: a create that fails reaches the caller as InvalidAge,
\* InvalidUserName or DuplicateEmail only when the repository's validation
\* raised it; a failure of the INSERT or of building the User reaches the
\* caller as the generic application error, answered 500 with the original
\* message at the end of its detail, never as UserNotFound; and a failed
\* create writes no row.
C16_CreateFailureIsGeneric ==
    [][ (last'.op = "create_user" /\ last'.delegated /\ last'.svcErr # "none") =>
          /\ rows' = rows
          /\ last'.svcErr \in ValidationKinds \cup {"AppBase"}
          /\ last'.svcErr \in ValidationKinds => last'.cause = "validation"
          /\ last'.cause \in {"engine", "model"} =>
                /\ last'.svcErr = "AppBase"
                /\ last'.code = 500
                /\ last'.error = HandlerError("AppBase")
          /\ last'.cause = "engine" =>
                /\ InsertFailure(rows, last'.args[1]) # << >>
                /\ IsSuffix(InsertFailure(rows, last'.args[1]), last'.detail)
      ]_vars

\* a create whose INSERT the engine refused was answered 500 while rows
\* were stored
C16_Witness ==
    /\ last.op = "create_user"
    /\ last.cause = "engine"
    /\ last.code = 500
    /\ Len(rows) = 1

\* C17: in get_by_email the repository raises nothing: it returns the
\* user's fields or a value with an 'error' entry; whenever the value has
\* the 'error' entry the service fails with UserNotFound carrying that
\* entry, so every failure of the lookup is answered 404.
C17_ErrorEntryIsNotFound ==
    last.op = "get_user_by_email" =>
        LET r == RepoGetUserByEmail(rows, last.email) IN
        /\ last.repoErr = "none"
        /\ r.error <=> r.dict = None
        /\ r.error =>
              /\ last.svcErr = "UserNotFound"
              /\ last.code = 404
              /\ last.error = HandlerError("UserNotFound")
              /\ last.detail = KindMessage(r.msg)
        /\ last.svcErr # "none" => (r.error /\ last.code = 404)

\* a lookup by an email that is not stored, among stored rows, answered 404
C17_Witness ==
    /\ last.op = "get_user_by_email"
    /\ last.code = 404
    /\ RepoGetUserByEmail(rows, last.email).error
    /\ Len(rows) = 2

\* the calls that only read
ReadOps == {"get_user", "get_user_by_email", "check_email_exists",
            "update_user_status", "health_check", "root"}

\* C20: the store changes only through a create answered 201, which
\* appends exactly one row and leaves the rows before it as they were; a
\* create that ends in an error and every get_by_id, get_by_email,
\* email_exists, update_status and health call leave the rows unchanged, so
\* the number of rows is the number of successful creates.
C20_OnlyCreateAppends ==
    [][ /\ rows' # rows =>
              /\ last'.op = "create_user"
              /\ last'.code = 201
              /\ Len(rows') = Len(rows) + 1
              /\ SubSeq(rows', 1, Len(rows)) = rows
        /\ (last'.op = "create_user" /\ last'.code = 201) => rows' # rows
        /\ (last'.op = "create_user" /\ last'.code # 201) => rows' = rows
        /\ last'.op \in ReadOps => rows' = rows
        /\ Len(rows') = created'
      ]_vars

\* after two successful creates a third create ended in an error
C20_Witness ==
    /\ created = 2
    /\ Len(rows) = 2
    /\ last.op = "create_user"
    /\ last.code \in {400, 409, 500}

\* the steps a request may take
PhaseSteps ==
    {<< "Idle", "Received" >>, << "Responded", "Received" >>,
     << "Faulted", "Received" >>, << "Received", "Parsed" >>,
     << "Received", "Faulted" >>, << "Parsed", "Delegated" >>,
     << "Parsed", "Faulted" >>, << "Delegated", "Responded" >>,
     << "Delegated", "Faulted" >>}

SameEmail ==
    /\ \A p \in Procs : EmailStrValid(reqs[p].email)
    /\ EmailStrValue(reqs[1].email) = EmailStrValue(reqs[2].email)

\* C19: whatever the order of the steps of two creates for the same email,
\* also when both pass the email check before either inserts, at most one
\* is answered 201, with an id assigned to its row; once both have
\* ended the other has an error answer; and the store never holds two rows
\* for the email.
C19_OneWinner ==
    SameEmail =>
        /\ ~(res[1].code = 201 /\ res[2].code = 201)
        /\ Cardinality({i \in 1..Len(rows) :
                           rows[i].email = EmailStrValue(reqs[1].email)}) <= 1
        /\ \A p \in Procs :
              res[p].code = 201 =>
                  /\ res[p].id # None
                  /\ \E i \in 1..Len(rows) :
                        /\ rows[i].id = res[p].id[1]
                        /\ rows[i].email = EmailStrValue(reqs[p].email)
        /\ (\A p \in Procs : pc[p] = "done") =>
              \A p \in Procs :
                  res[p].code # 201 => res[p].code \in {400, 409, 500}

\* both calls passed the email check, one inserted, the INSERT of the
\* other was refused by the unique constraint
C19_Witness ==
    /\ SameEmail
    /\ \A p \in Procs : pc[p] = "done" /\ Bindable(reqs[p].age)
    /\ res[1].code = 201
    /\ res[2].code = 500

====
